---------------------------- MODULE Spec2Model ----------------------------
(***************************************************************************)
(* Model of tensorflow/lite/kernels/internal/optimized/                    *)
(* depthwiseconv_multithread.h: HowManyConvThreads, DepthwiseConv and      *)
(* DepthwiseConvWorkerTask.                                                *)
(*                                                                         *)
(* One call of DepthwiseConv is a process whose position is pc.  The       *)
(* output tensor is abstracted to its (batch, row) coordinates: the        *)
(* kernel always spans the full width and depth, so a cell <<b, r>>        *)
(* stands for output_data[b, r, :, :].                                     *)
(***************************************************************************)
EXTENDS Integers, Sequences, FiniteSets

(* ----------------------------- bounds --------------------------------- *)
MaxBatch == 3
MaxHeight == 3
MaxThreads == 4
MaxPartThreads == 4
MaxDimSize == 10
MaxEstDim == 4

VARIABLES
    input_dims,          \* input_shape.DimensionsCount()
    filter_dims,         \* filter_shape.DimensionsCount()
    output_dims,         \* output_shape.DimensionsCount()
    output_shape,        \* RuntimeShape of the output: <<batch, height, width, depth>>
    filter_shape,        \* RuntimeShape of the filter: <<1, height, width, depth>>
    max_threads,         \* cpu_backend_context->max_num_threads()
    is_floating_point,   \* std::is_floating_point<T>::value
    input_data,          \* read-only input buffer, per output cell
    filter_data,         \* read-only filter buffer (one coefficient)
    bias_data,           \* read-only bias buffer (one coefficient)
    output_data,         \* output buffer, per cell; Unwritten before the first write
    write_count,         \* number of kernel writes each cell has received
    writers,             \* per cell: the units (0 = inline) that have written it
    pc,                  \* position of the DepthwiseConv call
    thread_count_batch,  \* local of DepthwiseConv
    thread_count_row,    \* local of DepthwiseConv
    thread_dim,          \* local of DepthwiseConv
    thread_count,        \* local of DepthwiseConv
    thread_dim_size,     \* local of DepthwiseConv
    thread_start,        \* local of the partition loop
    i,                   \* partition loop counter
    tasks,               \* std::vector<DepthwiseConvWorkerTask>
    exec_size,           \* number of tasks handed to Execute
    task_state,          \* per task: "pending", "running", "done"
    task_pos,            \* per task: next index of its range the kernel writes
    kernel_calls,        \* invocations of DepthwiseConvImpl: unit (0 = inline) -> count
    kernel_log,          \* arguments of the invocations of DepthwiseConvImpl
    execute_calls        \* number of calls of cpu_backend_threadpool::Execute

vars == <<input_dims, filter_dims, output_dims, output_shape, filter_shape, max_threads, is_floating_point,
          input_data, filter_data, bias_data, output_data, write_count,
          writers, pc, thread_count_batch,
          thread_count_row, thread_dim, thread_count, thread_dim_size,
          thread_start, i, tasks, exec_size, task_state, task_pos,
          kernel_calls, kernel_log, execute_calls>>

(* ------------------------- arithmetic helpers -------------------------- *)
Max(a, b) == IF a >= b THEN a ELSE b
Min(a, b) == IF a <= b THEN a ELSE b

\* int is 32 bits wide.
MaxInt32 == 2147483647
MinInt32 == -MaxInt32 - 1

\* C++ int division truncates toward zero.
IntDiv(a, b) ==
    IF b = MinInt32 THEN (IF a = MinInt32 THEN 1 ELSE 0)
    ELSE LET abs_a == IF a < 0 THEN -a ELSE a
             abs_b == IF b < 0 THEN -b ELSE b
         IN  IF (a < 0) = (b < 0) THEN abs_a \div abs_b
                                  ELSE -(abs_a \div abs_b)

\* The low 32 bits of a * b for an int a and a non-negative int b, as a
\* two's complement value.  The product is formed on 16-bit digits.
Mul32(a, b) ==
    LET a0 == a % 65536
        a1 == (a \div 65536) % 65536
        b0 == b % 65536
        b1 == b \div 65536
        t1 == (a0 \div 256) * b0
        s0 == ((a0 % 256) * b0) + (256 * (t1 % 256))
        carry == (s0 \div 65536) + (t1 \div 256)
        d0 == s0 % 65536
        d1 == (carry + ((a0 * b1) % 65536)
                     + (a1 * (b0 % 256))
                     + (256 * ((a1 * (b0 \div 256)) % 256))) % 65536
    IN  IF d1 >= 32768 THEN ((d1 - 65536) * 65536) + d0
                       ELSE (d1 * 65536) + d0

\* int multiplication where the build wraps around on overflow; each operand
\* is evaluated once.
MulWrap(a, b) == CHOOSE p \in {Mul32(x, y) : x \in {a}, y \in {b}} : TRUE

\* a * b does not fit an int (a, b non-negative)
MulOverflows(a, b) == a > 0 /\ b > 0 /\ a > MaxInt32 \div b

\* some step of the left-to-right product acc * factors[1] * ... overflows
RECURSIVE ProductOverflows(_, _)
ProductOverflows(acc, factors) ==
    IF factors = <<>> THEN FALSE
    ELSE IF MulOverflows(acc, Head(factors)) THEN TRUE
    ELSE ProductOverflows(acc * Head(factors), Tail(factors))

(* ----------------------------- shapes ---------------------------------- *)
Dims(shape, d) == shape[d + 1]

FlatSizeSkipDim(shape, skip_dim) ==
    LET F(d) == IF d = skip_dim THEN 1 ELSE Dims(shape, d)
    IN  MulWrap(MulWrap(MulWrap(F(0), F(1)), F(2)), F(3))

kMinMulPerThread == 8

\* mutant: the operands of the threshold division are swapped
HowManyConvThreadsSwapped(out_shape, filt_shape, dim) ==
    LET output_units == Dims(out_shape, dim)
        filter_height == Dims(filt_shape, 1)
        filter_width == Dims(filt_shape, 2)
        num_mul_per_unit ==
            FlatSizeSkipDim(out_shape, dim) * filter_height * filter_width
        min_units_per_thread == IntDiv(num_mul_per_unit, kMinMulPerThread) + 1
    IN  IntDiv(output_units, min_units_per_thread)

\* mutant: no minimum of work per thread, one thread per unit
HowManyConvThreadsPerUnit(out_shape, filt_shape, dim) == Dims(out_shape, dim)

\* lines 80-83
NumMulPerUnit(out_shape, filt_shape, dim) ==
    LET filter_height == Dims(filt_shape, 1)
        filter_width == Dims(filt_shape, 2)
    IN  MulWrap(MulWrap(FlatSizeSkipDim(out_shape, dim), filter_height),
                filter_width)

\* lines 80-83: the int product FlatSizeSkipDim * filter_height *
\* filter_width overflows, which is undefined behaviour
EstimateOverflows(out_shape, filt_shape, dim) ==
    LET F(d) == IF d = dim THEN 1 ELSE Dims(out_shape, d)
    IN  ProductOverflows(F(0), <<F(1), F(2), F(3), Dims(filt_shape, 1),
                                 Dims(filt_shape, 2)>>)

\* line 84
MinUnitsPerThread(out_shape, filt_shape, dim) ==
    IntDiv(kMinMulPerThread, NumMulPerUnit(out_shape, filt_shape, dim)) + 1

HowManyConvThreads(out_shape, filt_shape, dim) ==
    LET output_units == Dims(out_shape, dim)
        min_units_per_thread == MinUnitsPerThread(out_shape, filt_shape, dim)
    IN  IntDiv(output_units, min_units_per_thread)

(* ------------------------- inputs of a call ---------------------------- *)
OutputShapes ==
    { <<b, h, wd[1], wd[2]>> :
        b \in 1..MaxBatch,
        h \in (1..MaxHeight) \cup {10},
        wd \in {<<1, 1>>, <<10, 8>>} }

FilterShapes(out_shape) ==
    { <<1, f, f, Dims(out_shape, 3)>> : f \in {1, 3} }

Cells(out_shape) ==
    (0..(Dims(out_shape, 0) - 1)) \X (0..(Dims(out_shape, 1) - 1))

InputBuffers(out_shape) ==
    { [c \in Cells(out_shape) |-> (c[1] + 2 * c[2] + k) % 3] : k \in {0, 1} }

Unwritten == -1

(* ------------------------------ kernel --------------------------------- *)
\* Value the kernel computes for one output cell from the read-only input.
KernelValue(in, c) == filter_data * in[c] + bias_data

\* Cells of the slice [from, to) along dimension dim.
RangeCells(out_shape, from, to, dim) ==
    { c \in Cells(out_shape) : from <= c[dim + 1] /\ c[dim + 1] < to }

\* One whole call of the kernel over [from, to) along dim.
DepthwiseConvImpl(out, in, out_shape, from, to, dim) ==
    [c \in DOMAIN out |->
        IF c \in RangeCells(out_shape, from, to, dim)
        THEN KernelValue(in, c) ELSE out[c]]

\* The unit that runs the kernel is recorded as a writer of the cells.
RecordWriters(wr, unit, out_shape, from, to, dim) ==
    [c \in DOMAIN wr |->
        IF c \in RangeCells(out_shape, from, to, dim)
        THEN wr[c] \cup {unit} ELSE wr[c]]

\* The arguments of one invocation of the kernel.
KernelArgs(unit, from, to, dim) ==
    [unit |-> unit, thread_start |-> from, thread_end |-> to, thread_dim |-> dim]

CountWrites(cnt, out_shape, from, to, dim) ==
    [c \in DOMAIN cnt |->
        IF c \in RangeCells(out_shape, from, to, dim)
        THEN cnt[c] + 1 ELSE cnt[c]]

\* The dimension counts a caller may pass for input, filter and output.
DimensionCounts == { <<4, 4, 4>>, <<3, 4, 4>>, <<4, 5, 4>>, <<4, 4, 3>> }

(* ----------------------- DepthwiseConv: selection ---------------------- *)
\* mutant: the filter shape is not checked
DimensionsOkNoFilter(in_dims, filt_dims, out_dims) ==
    in_dims = 4 /\ out_dims = 4

\* lines 99-101: the conditions of the three checks
DimensionsOk(in_dims, filt_dims, out_dims) ==
    in_dims = 4 /\ filt_dims = 4 /\ out_dims = 4

\* mutant: the comparison is not strict, ties go to batch
SelectBatchOnTie(tc_batch, tc_row) == tc_batch >= tc_row

SelectBatch(tc_batch, tc_row) == tc_batch > tc_row

\* mutant: the ceiling is forgotten
ClampThreadsNoCeiling(tc, ceiling) == Max(1, tc)

\* mutant: the estimate is ignored, the ceiling is always used in full
ClampThreadsToCeiling(tc, ceiling) == Max(1, ceiling)

ClampThreads(tc, ceiling) == Max(1, Min(tc, ceiling))

\* mutant: the cap of 2 is applied to every element type
FloatCapAllTypes(tc, is_float) == Min(tc, 2)

FloatCap(tc, is_float) == IF is_float THEN Min(tc, 2) ELSE tc

\* mutant: the inline call passes the selected split dimension
InlineThreadDimSelected == thread_dim

InlineThreadDim == 1

\* mutant: the loop stops one iteration early
LoopContinuesOffByOne(ii, count) == ii < count - 1

LoopContinues(ii, count) == ii < count

\* mutant: the part already handed out is not subtracted
ThreadEndNoStart(start, size, count, ii) ==
    start + IntDiv(size, count - ii)

\* mutant: equal chunks of size / count, the remainder is dropped
ThreadEndEqualChunks(start, size, count, ii) ==
    start + IntDiv(size, count)

\* mutant: the divisor does not shrink with the iterations
ThreadEndNoIndex(start, size, count, ii) ==
    start + IntDiv(size - start, count)

\* mutant: the division rounds up
ThreadEndCeil(start, size, count, ii) ==
    start + IntDiv(size - start + (count - ii) - 1, count - ii)

\* mutant: the division rounds to the nearest integer
ThreadEndRound(start, size, count, ii) ==
    start + IntDiv(size - start + IntDiv(count - ii, 2), count - ii)

\* mutant: the iteration index is subtracted in place of thread_start
ThreadEndSubIndex(start, size, count, ii) ==
    start + IntDiv(size - ii, count - ii)

ThreadEnd(start, size, count, ii) ==
    start + IntDiv(size - start, count - ii)

\* mutant: thread_start is not advanced, every range starts at 0
NextThreadStartStale(start, end) == start

NextThreadStart(start, end) == end

\* mutant: the tasks get the row dimension, like the inline call
TaskThreadDimRow(dim) == 1

TaskThreadDim(dim) == dim

\* mutant: the last task is not handed to the executor
ExecuteSizeShort(ts) == Len(ts) - 1

ExecuteSize(ts) == Len(ts)

Locals0 ==
    /\ thread_count_batch = 0
    /\ thread_count_row = 0
    /\ thread_dim = 0
    /\ thread_count = 0
    /\ thread_dim_size = 0
    /\ thread_start = 0
    /\ i = 0
    /\ tasks = <<>>
    /\ exec_size = 0
    /\ task_state = <<>>
    /\ task_pos = <<>>
    /\ kernel_calls = [u \in 0..(MaxThreads + 1) |-> 0]
    /\ kernel_log = {}
    /\ execute_calls = 0

Init ==
    /\ \E dc \in DimensionCounts :
          input_dims = dc[1] /\ filter_dims = dc[2] /\ output_dims = dc[3]
    /\ output_shape \in OutputShapes
    /\ filter_shape \in FilterShapes(output_shape)
    /\ max_threads \in 0..MaxThreads
    /\ is_floating_point \in BOOLEAN
    /\ input_data \in InputBuffers(output_shape)
    /\ filter_data = 2
    /\ bias_data = 1
    /\ output_data = [c \in Cells(output_shape) |-> Unwritten]
    /\ write_count = [c \in Cells(output_shape) |-> 0]
    /\ writers = [c \in Cells(output_shape) |-> {}]
    /\ pc = "entry"
    /\ Locals0

Inputs == <<input_dims, filter_dims, output_dims, output_shape, filter_shape,
           max_threads, is_floating_point, input_data, filter_data, bias_data>>
Buffers == <<output_data, write_count, writers>>
Executor == <<exec_size, task_state, task_pos, execute_calls>>
LoopVars == <<thread_start, i, tasks>>

\* lines 99-101: the three checks pass
DCheckPass ==
    /\ pc = "entry"
    /\ DimensionsOk(input_dims, filter_dims, output_dims)
    /\ pc' = "start"
    /\ UNCHANGED <<Inputs, Buffers, Executor, LoopVars, thread_count_batch,
                   thread_count_row, thread_dim, thread_count, thread_dim_size,
                   kernel_calls, kernel_log>>

\* lines 99-101: a check fails and TFLITE_DCHECK_EQ aborts the call
DCheckFail ==
    /\ pc = "entry"
    /\ ~DimensionsOk(input_dims, filter_dims, output_dims)
    /\ pc' = "aborted"
    /\ UNCHANGED <<Inputs, Buffers, Executor, LoopVars, thread_count_batch,
                   thread_count_row, thread_dim, thread_count, thread_dim_size,
                   kernel_calls, kernel_log>>

\* lines 103-106
Estimate ==
    /\ pc = "start"
    /\ thread_count_batch' = HowManyConvThreads(output_shape, filter_shape, 0)
    /\ thread_count_row' = HowManyConvThreads(output_shape, filter_shape, 1)
    /\ pc' = "estimated"
    /\ UNCHANGED <<Inputs, Buffers, Executor, LoopVars, thread_dim,
                   thread_count, thread_dim_size, kernel_calls, kernel_log>>

\* lines 107-116
SelectDim ==
    /\ pc = "estimated"
    /\ IF SelectBatch(thread_count_batch, thread_count_row)
       THEN /\ thread_dim' = 0
            /\ thread_dim_size' = Dims(output_shape, 0)
            /\ thread_count' = thread_count_batch
       ELSE /\ thread_dim' = 1
            /\ thread_dim_size' = Dims(output_shape, 1)
            /\ thread_count' = thread_count_row
    /\ pc' = "selected"
    /\ UNCHANGED <<Inputs, Buffers, Executor, LoopVars, thread_count_batch,
                   thread_count_row, kernel_calls, kernel_log>>

\* lines 118-119
Clamp ==
    /\ pc = "selected"
    /\ thread_count' = ClampThreads(thread_count, max_threads)
    /\ pc' = "clamped"
    /\ UNCHANGED <<Inputs, Buffers, Executor, LoopVars, thread_count_batch,
                   thread_count_row, thread_dim, thread_dim_size, kernel_calls, kernel_log>>

\* lines 121-125
Cap ==
    /\ pc = "clamped"
    /\ thread_count' = FloatCap(thread_count, is_floating_point)
    /\ pc' = "capped"
    /\ UNCHANGED <<Inputs, Buffers, Executor, LoopVars, thread_count_batch,
                   thread_count_row, thread_dim, thread_dim_size, kernel_calls, kernel_log>>

\* lines 127-131: the inline path
InlineKernel ==
    /\ pc = "capped"
    /\ thread_count = 1
    /\ output_data' = DepthwiseConvImpl(output_data, input_data, output_shape,
                                        0, Dims(output_shape, 1), InlineThreadDim)
    /\ write_count' = CountWrites(write_count, output_shape,
                                  0, Dims(output_shape, 1), InlineThreadDim)
    /\ writers' = RecordWriters(writers, 0, output_shape,
                                0, Dims(output_shape, 1), InlineThreadDim)
    /\ kernel_calls' = [kernel_calls EXCEPT ![0] = @ + 1]
    /\ kernel_log' = kernel_log \cup
          {KernelArgs(0, 0, Dims(output_shape, 1), InlineThreadDim)}
    /\ pc' = "done"
    /\ UNCHANGED <<Inputs, Executor, LoopVars, thread_count_batch,
                   thread_count_row, thread_dim, thread_count, thread_dim_size>>

\* lines 132-137: the parallel path is entered
BeginPartition ==
    /\ pc = "capped"
    /\ thread_count # 1
    /\ tasks' = <<>>
    /\ thread_start' = 0
    /\ i' = 0
    /\ pc' = "partition"
    /\ UNCHANGED <<Inputs, Buffers, Executor, thread_count_batch,
                   thread_count_row, thread_dim, thread_count, thread_dim_size,
                   kernel_calls, kernel_log>>

\* lines 138-145: one iteration of the partition loop
PartitionStep ==
    /\ pc = "partition"
    /\ LoopContinues(i, thread_count)
    /\ LET thread_end == ThreadEnd(thread_start, thread_dim_size, thread_count, i)
       IN  /\ tasks' = Append(tasks, [thread_start |-> thread_start,
                                      thread_end |-> thread_end,
                                      thread_dim |-> TaskThreadDim(thread_dim)])
           /\ thread_start' = NextThreadStart(thread_start, thread_end)
    /\ i' = i + 1
    /\ UNCHANGED <<Inputs, Buffers, Executor, pc, thread_count_batch,
                   thread_count_row, thread_dim, thread_count, thread_dim_size,
                   kernel_calls, kernel_log>>

\* line 138: the loop condition fails and the loop is left
PartitionExit ==
    /\ pc = "partition"
    /\ ~LoopContinues(i, thread_count)
    /\ pc' = "partitioned"
    /\ UNCHANGED <<Inputs, Buffers, Executor, LoopVars, thread_count_batch,
                   thread_count_row, thread_dim, thread_count, thread_dim_size,
                   kernel_calls, kernel_log>>

\* lines 146-147: Execute is called with the tasks
ExecuteCall ==
    /\ pc = "partitioned"
    /\ exec_size' = ExecuteSize(tasks)
    /\ task_state' = [t \in 1..Len(tasks) |-> "pending"]
    /\ task_pos' = [t \in 1..Len(tasks) |-> tasks[t].thread_start]
    /\ execute_calls' = execute_calls + 1
    /\ pc' = "execute"
    /\ UNCHANGED <<Inputs, Buffers, LoopVars, thread_count_batch,
                   thread_count_row, thread_dim, thread_count, thread_dim_size,
                   kernel_calls, kernel_log>>

\* lines 54-58: a worker picks a task up and Run() enters the kernel
TaskRun(t) ==
    /\ pc = "execute"
    /\ t \in 1..exec_size
    /\ task_state[t] = "pending"
    /\ task_state' = [task_state EXCEPT ![t] = "running"]
    /\ kernel_calls' = [kernel_calls EXCEPT ![t] = @ + 1]
    /\ kernel_log' = kernel_log \cup
          {KernelArgs(t, tasks[t].thread_start, tasks[t].thread_end,
                      tasks[t].thread_dim)}
    /\ UNCHANGED <<Inputs, Buffers, LoopVars, pc, thread_count_batch,
                   thread_count_row, thread_dim, thread_count, thread_dim_size,
                   exec_size, task_pos, execute_calls>>

\* the kernel of task t writes the next index of its range
KernelStep(t) ==
    /\ pc = "execute"
    /\ t \in 1..exec_size
    /\ task_state[t] = "running"
    /\ task_pos[t] < tasks[t].thread_end
    /\ output_data' = DepthwiseConvImpl(output_data, input_data, output_shape,
                                        task_pos[t], task_pos[t] + 1,
                                        tasks[t].thread_dim)
    /\ write_count' = CountWrites(write_count, output_shape,
                                  task_pos[t], task_pos[t] + 1,
                                  tasks[t].thread_dim)
    /\ writers' = RecordWriters(writers, t, output_shape,
                                task_pos[t], task_pos[t] + 1,
                                tasks[t].thread_dim)
    /\ task_pos' = [task_pos EXCEPT ![t] = @ + 1]
    /\ UNCHANGED <<Inputs, LoopVars, pc, thread_count_batch,
                   thread_count_row, thread_dim, thread_count, thread_dim_size,
                   exec_size, task_state, kernel_calls, kernel_log, execute_calls>>

\* the kernel of task t returns and Run() ends
TaskFinish(t) ==
    /\ pc = "execute"
    /\ t \in 1..exec_size
    /\ task_state[t] = "running"
    /\ task_pos[t] >= tasks[t].thread_end
    /\ task_state' = [task_state EXCEPT ![t] = "done"]
    /\ UNCHANGED <<Inputs, Buffers, LoopVars, pc, thread_count_batch,
                   thread_count_row, thread_dim, thread_count, thread_dim_size,
                   exec_size, task_pos, kernel_calls, kernel_log, execute_calls>>

\* lines 146-148: Execute returns once every task it was given has run
ExecuteReturn ==
    /\ pc = "execute"
    /\ \A t \in 1..exec_size : task_state[t] = "done"
    /\ pc' = "done"
    /\ UNCHANGED <<Inputs, Buffers, Executor, LoopVars, thread_count_batch,
                   thread_count_row, thread_dim, thread_count, thread_dim_size,
                   kernel_calls, kernel_log>>

RunTask == \E t \in 1..(MaxThreads + 1) : TaskRun(t)
StepKernel == \E t \in 1..(MaxThreads + 1) : KernelStep(t)
FinishTask == \E t \in 1..(MaxThreads + 1) : TaskFinish(t)

Next ==
    \/ DCheckPass
    \/ DCheckFail
    \/ Estimate
    \/ SelectDim
    \/ Clamp
    \/ Cap
    \/ InlineKernel
    \/ BeginPartition
    \/ PartitionStep
    \/ PartitionExit
    \/ ExecuteCall
    \/ RunTask
    \/ StepKernel
    \/ FinishTask
    \/ ExecuteReturn

Spec == Init /\ [][Next]_vars

\* The executor runs every task it was given and the caller keeps stepping.
FairSpec == Spec /\ WF_vars(Next)

(* ------------- the partition loop on its own (lines 137-145) ----------- *)
PartInit ==
    /\ input_dims = 4
    /\ filter_dims = 4
    /\ output_dims = 4
    /\ output_shape = <<1, 1, 1, 1>>
    /\ filter_shape = <<1, 1, 1, 1>>
    /\ max_threads = MaxPartThreads
    /\ is_floating_point = FALSE
    /\ input_data = [c \in Cells(output_shape) |-> 0]
    /\ filter_data = 2
    /\ bias_data = 1
    /\ output_data = [c \in Cells(output_shape) |-> Unwritten]
    /\ write_count = [c \in Cells(output_shape) |-> 0]
    /\ writers = [c \in Cells(output_shape) |-> {}]
    /\ pc = "partition"
    /\ thread_count_batch = 0
    /\ thread_count_row = 0
    /\ thread_dim \in {0, 1}
    /\ thread_count \in 1..MaxPartThreads
    /\ thread_dim_size \in 0..MaxDimSize
    /\ thread_start = 0
    /\ i = 0
    /\ tasks = <<>>
    /\ exec_size = 0
    /\ task_state = <<>>
    /\ task_pos = <<>>
    /\ kernel_calls = [u \in 0..(MaxThreads + 1) |-> 0]
    /\ kernel_log = {}
    /\ execute_calls = 0

PartNext == PartitionStep \/ PartitionExit

PartSpec == PartInit /\ [][PartNext]_vars

(* ---------------- HowManyConvThreads on its own (lines 75-87) ---------- *)
\* Output shapes with all dimensions positive and fewer than 2^31 elements.
EstOutputShapes ==
    { <<b, h, w, d>> : b \in 1..MaxEstDim, h \in 1..MaxEstDim,
                       w \in {1, 2}, d \in {1, 2} }
    \cup { <<1, 10, 10, 8>>, <<1, 2160, 3840, 32>>,
           <<1, 21483, 49981, 1>>, <<2, 13325, 80581, 1>> }

EstFilterShapes(out_shape) ==
    { <<1, f, f, Dims(out_shape, 3)>> : f \in {1, 2, 3} }

EstInit ==
    /\ input_dims = 4
    /\ filter_dims = 4
    /\ output_dims = 4
    /\ output_shape \in EstOutputShapes
    /\ filter_shape \in EstFilterShapes(output_shape)
    /\ max_threads = 0
    /\ is_floating_point = FALSE
    /\ input_data = <<>>
    /\ filter_data = 2
    /\ bias_data = 1
    /\ output_data = <<>>
    /\ write_count = <<>>
    /\ writers = <<>>
    /\ pc = "est_call"
    /\ thread_count_batch = 0
    /\ thread_count_row = 0
    /\ thread_dim \in {0, 1}
    /\ thread_count = 0
    /\ thread_dim_size = 0
    /\ thread_start = 0
    /\ i = 0
    /\ tasks = <<>>
    /\ exec_size = 0
    /\ task_state = <<>>
    /\ task_pos = <<>>
    /\ kernel_calls = [u \in 0..(MaxThreads + 1) |-> 0]
    /\ kernel_log = {}
    /\ execute_calls = 0

\* lines 75-87: one call HowManyConvThreads(output_shape, filter_shape, thread_dim)
HowManyConvThreadsCall ==
    /\ pc = "est_call"
    /\ thread_count' = HowManyConvThreads(output_shape, filter_shape, thread_dim)
    /\ pc' = "est_return"
    /\ UNCHANGED <<Inputs, Buffers, Executor, LoopVars, thread_count_batch,
                   thread_count_row, thread_dim, thread_dim_size,
                   kernel_calls, kernel_log>>

\* lines 80-83: signed overflow is undefined behaviour.  A build either wraps
\* around (HowManyConvThreadsCall) or traps at the multiplication.
HowManyConvThreadsTrap ==
    /\ pc = "est_call"
    /\ EstimateOverflows(output_shape, filter_shape, thread_dim)
    /\ pc' = "est_trapped"
    /\ UNCHANGED <<Inputs, Buffers, Executor, LoopVars, thread_count_batch,
                   thread_count_row, thread_dim, thread_count, thread_dim_size,
                   kernel_calls, kernel_log>>

EstNext == HowManyConvThreadsCall \/ HowManyConvThreadsTrap

EstSpec == EstInit /\ [][EstNext]_vars

(* ======================= properties of the partition ==================== *)
LoopDone == pc = "partitioned"

RangeLen(t) == t.thread_end - t.thread_start

\* number of the ranges built so far that contain index x
Covering(x) ==
    Cardinality({k \in 1..Len(tasks) :
                    tasks[k].thread_start <= x /\ x < tasks[k].thread_end})

\* C1: the ranges emitted by the partition loop satisfy
\* 0 <= start <= end <= dimension_size, the first starts at 0, each ends
\* where the next starts, the last ends at dimension_size; so every index
\* of [0, dimension_size) lies in exactly one range.
PartitionCoverage ==
    /\ \A k \in 1..Len(tasks) :
          /\ 0 <= tasks[k].thread_start
          /\ tasks[k].thread_start <= tasks[k].thread_end
          /\ tasks[k].thread_end <= thread_dim_size
    /\ (Len(tasks) >= 1 => tasks[1].thread_start = 0)
    /\ \A k \in 1..(Len(tasks) - 1) :
          tasks[k].thread_end = tasks[k + 1].thread_start
    /\ \A k \in 1..Len(tasks), m \in 1..Len(tasks) :
          k < m => tasks[k].thread_end <= tasks[m].thread_start
    /\ (LoopDone =>
          /\ Len(tasks) >= 1
          /\ tasks[Len(tasks)].thread_end = thread_dim_size
          /\ \A x \in 0..(thread_dim_size - 1) : Covering(x) = 1)

PartitionCoverageWitness ==
    /\ LoopDone
    /\ thread_count = 3
    /\ thread_dim_size = 8
    /\ Len(tasks) = 3
    /\ \A k \in 1..3 : RangeLen(tasks[k]) >= 2

\* C2: the loop produces exactly thread_count ranges, also when
\* dimension_size < thread_count; then some ranges are empty, and the
\* ranges are still ordered, contiguous and cover [0, dimension_size).
PartitionCount ==
    /\ Len(tasks) = i
    /\ (LoopDone =>
          /\ Len(tasks) = thread_count
          /\ (thread_dim_size < thread_count =>
                /\ \E k \in 1..Len(tasks) : RangeLen(tasks[k]) = 0
                /\ \A k \in 1..Len(tasks) : RangeLen(tasks[k]) \in {0, 1}
                /\ \A k \in 1..(Len(tasks) - 1) :
                      tasks[k].thread_end = tasks[k + 1].thread_start
                /\ Cardinality({k \in 1..Len(tasks) : RangeLen(tasks[k]) = 1})
                      = thread_dim_size
                /\ \A x \in 0..(thread_dim_size - 1) : Covering(x) = 1))

PartitionCountWitness ==
    /\ LoopDone
    /\ thread_count = 4
    /\ thread_dim_size = 2
    /\ Len(tasks) = 4
    /\ \E k \in 1..4 : RangeLen(tasks[k]) = 0
    /\ \E k \in 1..4 : RangeLen(tasks[k]) = 1

Ranges == [k \in 1..Len(tasks) |-> <<tasks[k].thread_start, tasks[k].thread_end>>]

\* C8 as stated: thread_count 3 and dimension_size 10 give [0,4) [4,7) [7,10).
PartitionThreeOfTenAsStated ==
    (LoopDone /\ thread_count = 3 /\ thread_dim_size = 10)
        => Ranges = << <<0, 4>>, <<4, 7>>, <<7, 10>> >>

\* C8, amended: thread_count 3 and dimension_size 10 give exactly the
\* ranges [0,3) [3,6) [6,10).
PartitionThreeOfTen ==
    (LoopDone /\ thread_count = 3 /\ thread_dim_size = 10)
        => Ranges = << <<0, 3>>, <<3, 6>>, <<6, 10>> >>

PartitionThreeOfTenWitness ==
    /\ LoopDone
    /\ thread_count = 3
    /\ thread_dim_size = 10
    /\ Len(tasks) = 3

(* ================= shape of the partition (C14, C15) =================== *)
\* C14 as stated: the remainder goes to the earliest ranges, the range
\* lengths are non-increasing in i.
RemainderFirstAsStated ==
    LoopDone =>
        \A k \in 1..(Len(tasks) - 1) :
            RangeLen(tasks[k]) >= RangeLen(tasks[k + 1])

\* C14, amended: the remainder goes to the last ranges, the range lengths
\* are non-decreasing in i, and when dimension_size is not a multiple of
\* thread_count the last range is longer than the first.
RemainderLast ==
    LoopDone =>
        /\ \A k \in 1..(Len(tasks) - 1) :
               RangeLen(tasks[k]) <= RangeLen(tasks[k + 1])
        /\ (thread_dim_size % thread_count # 0) =>
               RangeLen(tasks[1]) < RangeLen(tasks[Len(tasks)])

RemainderLastWitness ==
    /\ LoopDone
    /\ thread_count = 4
    /\ thread_dim_size = 10
    /\ RangeLen(tasks[2]) < RangeLen(tasks[3])

\* floor and ceiling of dimension_size / thread_count
FloorShare == thread_dim_size \div thread_count
CeilShare == (thread_dim_size + thread_count - 1) \div thread_count

\* C15: for every thread_count >= 1 and dimension_size >= 0 every range
\* length is floor(dimension_size / thread_count) or
\* ceil(dimension_size / thread_count), so two lengths differ by at most 1.
EvenPartition ==
    LoopDone =>
        /\ \A k \in 1..Len(tasks) :
               RangeLen(tasks[k]) \in {FloorShare, CeilShare}
        /\ \A k, l \in 1..Len(tasks) :
               RangeLen(tasks[k]) - RangeLen(tasks[l]) <= 1

EvenPartitionWitness ==
    /\ LoopDone
    /\ thread_count = 3
    /\ thread_dim_size = 8
    /\ \E k \in 1..3 : RangeLen(tasks[k]) = FloorShare
    /\ \E k \in 1..3 : RangeLen(tasks[k]) = CeilShare
    /\ FloorShare # CeilShare

(* ======================= properties of DepthwiseConv =================== *)
PostSelect == pc \notin {"entry", "aborted", "start", "estimated"}
PostClamp == pc \notin {"entry", "aborted", "start", "estimated", "selected"}
PostCap ==
    pc \notin {"entry", "aborted", "start", "estimated", "selected", "clamped"}
PostPartition == pc \in {"partitioned", "execute", "done"}

ParallelPath == PostPartition /\ thread_count > 1

\* C3: when DepthwiseConv returns, every element of the output has been
\* written exactly once, on the inline path and on the parallel path.
WrittenExactlyOnce ==
    pc = "done" => \A c \in Cells(output_shape) : write_count[c] = 1

WrittenExactlyOnceWitness ==
    /\ pc = "done"
    /\ thread_count >= 3
    /\ thread_dim = 0
    /\ Len(tasks) = thread_count
    /\ kernel_calls[0] = 0
    /\ \A c \in Cells(output_shape) : write_count[c] = 1

\* The buffer one inline kernel call over rows [0, output_height) leaves.
InlineResult ==
    DepthwiseConvImpl([c \in Cells(output_shape) |-> Unwritten], input_data,
                      output_shape, 0, Dims(output_shape, 1), 1)

\* C4: the output buffer the parallel path leaves equals the buffer of the
\* inline path, for every number of units and every interleaving.
FallbackEquivalence ==
    (pc = "done" /\ thread_count > 1) => output_data = InlineResult

FallbackEquivalenceWitness ==
    /\ pc = "done"
    /\ thread_count = 4
    /\ thread_dim = 1
    /\ Dims(output_shape, 0) > 1
    /\ output_data = InlineResult
    /\ \E c \in Cells(output_shape) : output_data[c] # output_data[<<0, 0>>]

\* C5 as stated: the selected thread_count is >= 1 and never exceeds the
\* hardware thread ceiling, for every non-negative ceiling.
CeilingRespectAsStated ==
    PostClamp => (thread_count >= 1 /\ thread_count <= max_threads)

\* C5, amended: the selected thread_count is >= 1; it never exceeds the
\* ceiling when the ceiling is at least 1, and it is 1 when the ceiling is 0.
CeilingRespect ==
    PostClamp =>
        /\ thread_count >= 1
        /\ (max_threads >= 1 => thread_count <= max_threads)
        /\ (max_threads = 0 => thread_count = 1)

CeilingRespectWitness ==
    /\ pc = "capped"
    /\ max_threads = 3
    /\ thread_count = 3
    /\ thread_count_row > 3
    /\ thread_dim = 1

SelectedEstimate == IF thread_dim = 0 THEN thread_count_batch ELSE thread_count_row

\* C6: for a floating-point element type the selected thread_count is 1 or
\* 2; for an integer type the count is the clamped estimate, uncapped.
FloatCapLimit ==
    PostCap =>
        /\ (is_floating_point => thread_count \in {1, 2})
        /\ (~is_floating_point =>
              thread_count =
                IF SelectedEstimate <= max_threads
                THEN (IF SelectedEstimate >= 1 THEN SelectedEstimate ELSE 1)
                ELSE (IF max_threads >= 1 THEN max_threads ELSE 1))

FloatCapLimitWitness ==
    /\ pc = "capped"
    /\ is_floating_point
    /\ thread_count = 2
    /\ max_threads >= 3
    /\ SelectedEstimate >= 3

\* C7: the split dimension is batch iff the batch estimate is strictly
\* greater than the row estimate, else row; the pre-clamp thread_count and
\* the partitioned extent are those of the selected dimension.
DimensionChoice ==
    PostSelect =>
        /\ thread_dim \in {0, 1}
        /\ (thread_dim = 0 <=> thread_count_batch > thread_count_row)
        /\ (thread_count_batch = thread_count_row => thread_dim = 1)
        /\ thread_dim_size = Dims(output_shape, thread_dim)
        /\ (pc = "selected" => thread_count = SelectedEstimate)

DimensionChoiceWitness ==
    /\ pc = "selected"
    /\ thread_count_batch = thread_count_row
    /\ thread_count_row >= 2
    /\ thread_dim = 1
    /\ thread_dim_size = Dims(output_shape, 1)

RECURSIVE SumLen(_, _)
SumLen(ts, n) == IF n = 0 THEN 0 ELSE RangeLen(ts[n]) + SumLen(ts, n - 1)

Scenario ==
    /\ output_shape = <<1, 10, 10, 8>>
    /\ filter_shape = <<1, 3, 3, 8>>
    /\ max_threads = 4
    /\ ~is_floating_point

\* C9: for output (1,10,10,8), filter (1,3,3,8), ceiling 4 and an integer
\* type the row dimension is selected, the parallel path is taken, and the
\* 10 rows are split into thread_count contiguous ranges of total length 10.
ScenarioRows ==
    Scenario =>
        /\ (PostSelect => thread_dim = 1 /\ thread_dim_size = 10)
        /\ (PostCap => thread_count > 1)
        /\ kernel_calls[0] = 0
        /\ (pc = "done" => execute_calls = 1)
        /\ (PostPartition =>
              /\ Len(tasks) = thread_count
              /\ tasks[1].thread_start = 0
              /\ \A k \in 1..(Len(tasks) - 1) :
                    tasks[k].thread_end = tasks[k + 1].thread_start
              /\ \A k \in 1..Len(tasks) : tasks[k].thread_dim = 1
              /\ SumLen(tasks, Len(tasks)) = 10)

ScenarioRowsWitness ==
    /\ Scenario
    /\ pc = "done"
    /\ thread_count = 4
    /\ Ranges = << <<0, 2>>, <<2, 4>>, <<4, 7>>, <<7, 10>> >>

AllUnitsDone ==
    /\ Len(tasks) = thread_count
    /\ \A t \in 1..thread_count :
          /\ task_state[t] = "done"
          /\ task_pos[t] = tasks[t].thread_end

\* C10: on the parallel path DepthwiseConv returns only after every one of
\* the thread_count units has completed its Run, and under a fair executor
\* every call that passed the shape checks eventually returns.
FanInBarrier ==
    /\ []((pc = "done" /\ thread_count > 1) => AllUnitsDone)
    /\ <>(pc = "done" \/ input_dims # 4 \/ filter_dims # 4 \/ output_dims # 4)

FanInBarrierWitness ==
    /\ pc = "done"
    /\ thread_count = 4
    /\ execute_calls = 1
    /\ AllUnitsDone

(* ========================= race freedom (C11) ========================== *)
\* Every write is inside the range of the unit that made it, no cell has
\* two writers, and the ranges of distinct units do not intersect.
WritesConfined ==
    /\ \A c \in DOMAIN writers :
          /\ Cardinality(writers[c]) <= 1
          /\ \A u \in writers[c] :
                u >= 1 =>
                    /\ u \in 1..Len(tasks)
                    /\ tasks[u].thread_start <= c[tasks[u].thread_dim + 1]
                    /\ c[tasks[u].thread_dim + 1] < tasks[u].thread_end
    /\ (pc = "execute" =>
          \A t \in 1..Len(tasks), u \in 1..Len(tasks) :
              t # u =>
                  /\ tasks[t].thread_dim = tasks[u].thread_dim
                  /\ \/ tasks[t].thread_end <= tasks[u].thread_start
                     \/ tasks[u].thread_end <= tasks[t].thread_start)

ReadOnlyInputs ==
    /\ input_data' = input_data
    /\ filter_data' = filter_data
    /\ bias_data' = bias_data

\* C11: on the parallel path each unit writes only indices of its own
\* [thread_start, thread_end), distinct units write disjoint index sets, so
\* no output element is ever written by two units, and no step writes the
\* input, filter or bias buffer.
RaceFreedom ==
    /\ []WritesConfined
    /\ [][ReadOnlyInputs]_vars

RaceFreedomWitness ==
    /\ pc = "execute"
    /\ thread_count = 4
    /\ \E t \in 1..exec_size, u \in 1..exec_size :
          /\ t # u
          /\ task_state[t] = "running"
          /\ task_state[u] = "running"
          /\ task_pos[t] > tasks[t].thread_start
          /\ task_pos[u] > tasks[u].thread_start
          /\ task_pos[t] < tasks[t].thread_end
          /\ task_pos[u] < tasks[u].thread_end

(* ===================== dispatch (C16, C17) ============================= *)
TaskUnits == 1..(MaxThreads + 1)

\* C16: when the selected thread_count is 1 the kernel is invoked exactly
\* once, inline, with thread_start 0, thread_end output_height and
\* thread_dim 1 whatever split dimension was selected; no work unit is built
\* and the executor is never called.
InlineDispatch ==
    /\ (PostCap /\ thread_count = 1) =>
           /\ pc \in {"capped", "done"}
           /\ tasks = <<>>
           /\ execute_calls = 0
           /\ \A u \in TaskUnits : kernel_calls[u] = 0
    /\ (pc = "done" /\ thread_count = 1) =>
           /\ kernel_calls[0] = 1
           /\ kernel_log = {KernelArgs(0, 0, Dims(output_shape, 1), 1)}

InlineDispatchWitness ==
    /\ pc = "done"
    /\ thread_count = 1
    /\ thread_dim = 0
    /\ Dims(output_shape, 0) # Dims(output_shape, 1)
    /\ kernel_calls[0] = 1

\* C17: when the selected thread_count is greater than 1 exactly
\* thread_count work units are built, all with the selected thread_dim and
\* differing only in their range; the executor is called exactly once with
\* all of them, the kernel is invoked exactly once per unit with that unit's
\* range, and never inline.
ParallelDispatch ==
    /\ ParallelPath =>
           /\ Len(tasks) = thread_count
           /\ \A k \in 1..Len(tasks) : tasks[k].thread_dim = thread_dim
           /\ kernel_calls[0] = 0
           /\ execute_calls = (IF pc = "partitioned" THEN 0 ELSE 1)
           /\ pc # "partitioned" => exec_size = thread_count
    /\ (pc = "done" /\ thread_count > 1) =>
           /\ \A u \in TaskUnits :
                  kernel_calls[u] = (IF u <= thread_count THEN 1 ELSE 0)
           /\ kernel_log =
                  { KernelArgs(k, tasks[k].thread_start, tasks[k].thread_end,
                               thread_dim) : k \in 1..thread_count }

ParallelDispatchWitness ==
    /\ pc = "done"
    /\ thread_count = 3
    /\ thread_dim = 0
    /\ execute_calls = 1
    /\ \A k \in 1..3 : kernel_calls[k] = 1

(* ============== size of the work units (C18, C19) ====================== *)
PositiveShape == \A d \in 0..3 : Dims(output_shape, d) > 0

\* C18: for shapes with positive dimensions the final thread_count never
\* exceeds the size of the selected split dimension, so on the parallel
\* path every work unit has a non-empty range.
NonEmptyRanges ==
    PositiveShape =>
        /\ PostSelect =>
               SelectedEstimate <= Dims(output_shape, thread_dim)
        /\ PostCap => thread_count <= Dims(output_shape, thread_dim)
        /\ pc \in {"partition", "partitioned", "execute", "done"} =>
               \A k \in 1..Len(tasks) :
                   tasks[k].thread_start < tasks[k].thread_end

NonEmptyRangesWitness ==
    /\ pc = "done"
    /\ PositiveShape
    /\ thread_count > 1
    /\ thread_count = Dims(output_shape, thread_dim)
    /\ Len(tasks) = thread_count
    /\ \A k \in 1..Len(tasks) : RangeLen(tasks[k]) = 1

\* the minimum of units per thread and the work per unit of the selected
\* dimension
SelectedMinUnits == MinUnitsPerThread(output_shape, filter_shape, thread_dim)
SelectedWorkPerUnit == NumMulPerUnit(output_shape, filter_shape, thread_dim)

\* C19: for shapes with positive dimensions, on the parallel path every
\* work unit's range length is at least min_units_per_thread of the selected
\* dimension, so range_length * work_per_unit is greater than
\* kMinMulPerThread for every unit.
MinimumWork ==
    (PositiveShape /\ ParallelPath) =>
        \A k \in 1..Len(tasks) :
            /\ RangeLen(tasks[k]) >= SelectedMinUnits
            /\ RangeLen(tasks[k]) * SelectedWorkPerUnit > kMinMulPerThread

MinimumWorkWitness ==
    /\ pc = "done"
    /\ PositiveShape
    /\ thread_count > 1
    /\ SelectedMinUnits > 1
    /\ \E k \in 1..Len(tasks) : RangeLen(tasks[k]) = SelectedMinUnits

(* ==================== the thread estimate (C12) ======================== *)
\* a * b, saturated at 9: enough to compare a product with kMinMulPerThread
SatMul(a, b) ==
    LET x == IF a > 9 THEN 9 ELSE a
        y == IF b > 9 THEN 9 ELSE b
    IN  IF x * y > 9 THEN 9 ELSE x * y

\* FlatSizeSkipDim(output, dim) * filter_height * filter_width as a
\* mathematical product, saturated at 9
WorkPerUnitSat ==
    LET F(d) == IF d = thread_dim THEN 1 ELSE Dims(output_shape, d)
    IN  SatMul(SatMul(SatMul(SatMul(SatMul(F(0), F(1)), F(2)), F(3)),
                      Dims(filter_shape, 1)), Dims(filter_shape, 2))

\* units / (8 / work_per_unit + 1) over the mathematical integers
StatedEstimate ==
    IF WorkPerUnitSat > 8 THEN Dims(output_shape, thread_dim)
    ELSE Dims(output_shape, thread_dim) \div (8 \div WorkPerUnitSat + 1)

\* C12: for all shapes with positive dimensions HowManyConvThreads returns
\* units / (8 / work_per_unit + 1) with integer division;
\* min_units_per_thread is at least 1 and the result is non-negative.
EstimateAsStated ==
    pc = "est_return" =>
        /\ thread_count = StatedEstimate
        /\ MinUnitsPerThread(output_shape, filter_shape, thread_dim) >= 1
        /\ thread_count >= 0

(* ===================== malformed shapes (C13) ========================== *)
MalformedShape == input_dims # 4 \/ filter_dims # 4 \/ output_dims # 4

\* C13: when the input, filter or output shape does not have 4 dimensions
\* DepthwiseConv fails before it computes anything: no estimate is made,
\* the kernel and the executor are never invoked and the output buffer is
\* never written.
MalformedShapeAborts ==
    MalformedShape =>
        /\ pc \in {"entry", "aborted"}
        /\ thread_count_batch = 0 /\ thread_count_row = 0 /\ tasks = <<>>
        /\ \A u \in DOMAIN kernel_calls : kernel_calls[u] = 0
        /\ kernel_log = {}
        /\ execute_calls = 0
        /\ \A c \in DOMAIN output_data :
              output_data[c] = Unwritten /\ write_count[c] = 0

MalformedShapeAbortsWitness ==
    /\ pc = "aborted"
    /\ filter_dims = 5
    /\ input_dims = 4
    /\ output_dims = 4

=============================================================================
